---- MODULE Spec2Model ----
(***************************************************************************)
(* A model of the image resizer service: the S3 address logic of           *)
(* src/src/s3.rs, the resize geometry of src/src/image_processor.rs and    *)
(* the request handler of src/src/handlers.rs.                             *)
(*                                                                         *)
(* Strings are sequences of one-character strings, so that prefix tests,   *)
(* splitting and formatting are computed as the code computes them.        *)
(***************************************************************************)
EXTENDS Integers, Sequences, FiniteSets, TLC

VARIABLES
    store,      \* the object store: a function from <<bucket, key>> to bytes
    pc,         \* per request slot: where resize_image stands
    req,        \* per request slot: the ResizeRequest payload
    loc,        \* per request slot: bucket, original_key, resized_key
    data,       \* per request slot: image_data, then resized_data
    resp,       \* per request slot: the Result returned
    ops,        \* per request slot: the collaborator operations invoked, in order
    repeatOf,   \* per request slot: the locator an identical earlier call returned
    build,      \* what the build fixes: whether the JPEG encoder takes RGBA pixels
    input,      \* the argument of the pure function under check
    output,     \* its result
    phase       \* "in" before the function is applied, "out" after

vars == <<store, pc, req, loc, data, resp, ops, repeatOf, build, input, output, phase>>

None == "none"

\* Option::None where Some holds a string: a sequence that is no string
Nothing == <<None>>

(***************************************************************************)
(* Bounds                                                                  *)
(***************************************************************************)
MaxBucketLen == 4
MaxKeyLen == 4
MaxRawKeyLen == 2
MaxDim == 12
MaxPix == 9
MaxBox == 3
MaxReqDim == 1

(***************************************************************************)
(* Strings                                                                 *)
(***************************************************************************)
\* F(a) and F(a, b), the arguments evaluated once, before F is
Strict1(F(_), a) == CHOOSE r \in {F(x) : x \in {a}} : TRUE
Strict2(F(_, _), a, b) == CHOOSE r \in {F(x, y) : x \in {a}, y \in {b}} : TRUE


Take(s, n) == SubSeq(s, 1, n)
Drop(s, n) == SubSeq(s, n + 1, Len(s))

\* str::starts_with
StartsWith(s, p) == Len(s) >= Len(p) /\ Take(s, Len(p)) = p

\* str::contains
Contains(s, p) == \E i \in 0..(Len(s) - Len(p)) : SubSeq(s, i + 1, i + Len(p)) = p

\* str::find for one character: the first index of c in s, 0 when absent
IndexOf(s, c) ==
    IF \E i \in 1..Len(s) : s[i] = c
    THEN CHOOSE i \in 1..Len(s) : s[i] = c /\ \A j \in 1..(i - 1) : s[j] # c
    ELSE 0

\* the last index of c in s, 0 when absent
LastIndexOf(s, c) ==
    IF \E i \in 1..Len(s) : s[i] = c
    THEN CHOOSE i \in 1..Len(s) : s[i] = c /\ \A j \in (i + 1)..Len(s) : s[j] # c
    ELSE 0

\* str::trim_start_matches('/')
RECURSIVE TrimStartSlashes(_)
TrimStartSlashes(s) ==
    IF s # <<>> /\ Head(s) = "/" THEN TrimStartSlashes(Tail(s)) ELSE s

\* str::split: the pieces of s between occurrences of c
RECURSIVE Split(_, _)
Split(s, c) ==
    LET i == IndexOf(s, c)
    IN  IF i = 0 THEN <<s>> ELSE <<Take(s, i - 1)>> \o Split(Drop(s, i), c)

\* str::splitn(2, c): at most two pieces, split at the first c
SplitN2(s, c) ==
    LET i == IndexOf(s, c)
    IN  IF i = 0 THEN <<s>> ELSE <<Take(s, i - 1), Drop(s, i)>>

\* the pieces joined again with c between them
RECURSIVE Join(_, _)
Join(ss, c) ==
    IF ss = <<>> THEN <<>>
    ELSE IF Len(ss) = 1 THEN ss[1]
    ELSE ss[1] \o <<c>> \o Join(Tail(ss), c)

\* all sequences over A of length at most n
RECURSIVE SeqsUpTo(_, _)
SeqsUpTo(A, n) ==
    IF n = 0 THEN {<<>>}
    ELSE LET shorter == SeqsUpTo(A, n - 1)
         IN  shorter \cup {Append(s, a) : s \in shorter, a \in A}

S3Scheme == <<"s", "3">>
HttpsScheme == <<"h", "t", "t", "p", "s">>
HttpScheme == <<"h", "t", "t", "p">>
FtpScheme == <<"f", "t", "p">>
SchemeSep == <<":", "/", "/">>

(***************************************************************************)
(* Url::parse, as far as parse_s3_url reads its result: the scheme, the    *)
(* host and the path.  The strings of this model hold no userinfo, port,   *)
(* query, fragment, upper-case letter or character that is percent-encoded.*)
(***************************************************************************)
\* host_str() = None
NoHost == Nothing

IsSpecialScheme(scheme) == scheme \in {HttpsScheme, HttpScheme, FtpScheme}

IsSchemeChar(c) ==
    c \in {"a", "b", "c", "f", "h", "k", "p", "s", "t", "3", "-", "."}

\* the path's segments with "." and ".." segments resolved
RECURSIVE ResolveDots(_, _)
ResolveDots(segs, acc) ==
    IF segs = <<>> THEN acc
    ELSE LET seg == Head(segs)
             last == Len(segs) = 1
         IN  IF seg = <<".", ".">>
             THEN LET popped == IF acc = <<>> THEN acc ELSE Take(acc, Len(acc) - 1)
                  IN  ResolveDots(Tail(segs), IF last THEN Append(popped, <<>>) ELSE popped)
             ELSE IF seg = <<".">>
             THEN ResolveDots(Tail(segs), IF last THEN Append(acc, <<>>) ELSE acc)
             ELSE ResolveDots(Tail(segs), Append(acc, seg))

\* a path that starts with "/", normalised
NormalizePath(path) ==
    IF path = <<>> THEN <<>>
    ELSE <<"/">> \o Join(ResolveDots(Split(Tail(path), "/"), <<>>), "/")

UrlParse(s) ==
    LET colon == IndexOf(s, ":")
        scheme == Take(s, colon - 1)
        rest == Drop(s, colon)
    IN  IF colon <= 1 \/ \E i \in 1..Len(scheme) : ~IsSchemeChar(scheme[i])
           \/ scheme[1] \in {"3", "-", "."}
        THEN [ok |-> FALSE]
        ELSE IF IsSpecialScheme(scheme)
        THEN \* a special scheme always has an authority; extra slashes are skipped
             LET after == TrimStartSlashes(rest)
                 slash == IndexOf(after, "/")
                 host == IF slash = 0 THEN after ELSE Take(after, slash - 1)
                 path == IF slash = 0 THEN <<"/">> ELSE Drop(after, slash - 1)
             IN  IF host = <<>> THEN [ok |-> FALSE]
                 ELSE [ok |-> TRUE, scheme |-> scheme, host |-> host,
                       path |-> NormalizePath(path)]
        ELSE IF StartsWith(rest, <<"/", "/">>)
        THEN LET after == Drop(rest, 2)
                 slash == IndexOf(after, "/")
                 host == IF slash = 0 THEN after ELSE Take(after, slash - 1)
                 path == IF slash = 0 THEN <<>> ELSE Drop(after, slash - 1)
             IN  [ok |-> TRUE, scheme |-> scheme,
                  host |-> IF host = <<>> THEN NoHost ELSE host,
                  path |-> NormalizePath(path)]
        ELSE [ok |-> TRUE, scheme |-> scheme, host |-> NoHost, path |-> rest]

(***************************************************************************)
(* parse_s3_url                                                            *)
(***************************************************************************)
InvalidS3Url == [ok |-> FALSE, err |-> "InvalidS3Url"]

ParsedOk(bucket, key) ==
    IF key = <<>> THEN InvalidS3Url
    ELSE [ok |-> TRUE, bucket |-> bucket, key |-> key]

IsPathStyleHost(host) ==
    StartsWith(host, <<"s", "3", ".">>) \/ StartsWith(host, <<"s", "3", "-">>)

IsVirtualHostedHost(host) ==
    Contains(host, <<".", "s", "3", ".">>) \/ Contains(host, <<".", "s", "3", "-">>)

ParseS3Url(s3_url) ==
    LET url == UrlParse(s3_url)
    IN  IF ~url.ok THEN InvalidS3Url
        ELSE IF url.scheme = S3Scheme
        THEN IF url.host = NoHost THEN InvalidS3Url
             ELSE ParsedOk(url.host, TrimStartSlashes(url.path))
        ELSE IF url.scheme \in {HttpsScheme, HttpScheme}
        THEN IF url.host = NoHost THEN InvalidS3Url
             ELSE IF IsPathStyleHost(url.host)
             THEN LET parts == SplitN2(TrimStartSlashes(url.path), "/")
                  IN  IF Len(parts) < 2 THEN InvalidS3Url
                      ELSE ParsedOk(parts[1], parts[2])
             ELSE IF IsVirtualHostedHost(url.host)
             THEN ParsedOk(Split(url.host, ".")[1], TrimStartSlashes(url.path))
             ELSE InvalidS3Url
        ELSE InvalidS3Url

(***************************************************************************)
(* std::path::Path over a key: components, file_name, file_stem,           *)
(* extension and parent (Unix rules).                                      *)
(***************************************************************************)
\* the [from, to] index ranges of the pieces of s between "/" characters
RECURSIVE Pieces(_, _)
Pieces(s, from) ==
    IF from > Len(s) + 1 THEN <<>>
    ELSE LET i == IndexOf(Drop(s, from - 1), "/")
             to == IF i = 0 THEN Len(s) ELSE from + i - 2
         IN  <<[from |-> from, to |-> to]>>
             \o (IF i = 0 THEN <<>> ELSE Pieces(s, to + 2))

\* Path::components: empty pieces are dropped, and so is "." unless it leads
\* a relative path; a leading "/" is the root component
PathComponents(s) ==
    (IF s # <<>> /\ s[1] = "/" THEN <<[from |-> 1, to |-> 1]>> ELSE <<>>)
    \o Strict1(LAMBDA ps :
                  SelectSeq([i \in 1..Len(ps) |->
                                [from |-> ps[i].from, to |-> ps[i].to,
                                 keep |-> \E piece \in {SubSeq(s, ps[i].from, ps[i].to)} :
                                             /\ piece # <<>>
                                             /\ (piece = <<".">> => i = 1)]],
                            LAMBDA c : c.keep),
               Pieces(s, 1))

ComponentText(s, c) == SubSeq(s, c.from, c.to)

\* Path::file_name: the last component when it is a normal one
FileName(s) ==
    Strict1(LAMBDA cs :
                IF cs = <<>> THEN Nothing
                ELSE Strict1(LAMBDA last :
                                 IF last \in {<<"/">>, <<".">>, <<".", ".">>}
                                 THEN Nothing ELSE last,
                             ComponentText(s, cs[Len(cs)])),
            PathComponents(s))

\* Path::file_stem
FileStem(s) ==
    Strict1(LAMBDA name :
                IF name = Nothing THEN Nothing
                ELSE Strict1(LAMBDA dot : IF dot <= 1 THEN name ELSE Take(name, dot - 1),
                             LastIndexOf(name, ".")),
            FileName(s))

\* Path::extension
Extension(s) ==
    Strict1(LAMBDA name :
                IF name = Nothing THEN Nothing
                ELSE Strict1(LAMBDA dot : IF dot <= 1 THEN Nothing ELSE Drop(name, dot),
                             LastIndexOf(name, ".")),
            FileName(s))

\* Path::parent: the path up to the component before the last one
Parent(s) ==
    Strict1(LAMBDA cs :
                IF cs = <<>> \/ (Len(cs) = 1 /\ ComponentText(s, cs[1]) = <<"/">>)
                THEN Nothing
                ELSE IF Len(cs) = 1 THEN <<>>
                ELSE Take(s, cs[Len(cs) - 1].to),
            PathComponents(s))

(***************************************************************************)
(* generate_resized_key                                                    *)
(***************************************************************************)
Digit(d) == <<"0", "1", "2", "3", "4", "5", "6", "7", "8", "9">>[d + 1]

\* Display for u32: the decimal digits
RECURSIVE Dec(_)
Dec(n) == IF n < 10 THEN <<Digit(n)>> ELSE Append(Dec(n \div 10), Digit(n % 10))

UnwrapOr(opt, default) == Strict1(LAMBDA o : IF o = Nothing THEN default ELSE o, opt)

\* a filename whose dimensions run together, without the x between them
FormatFilenameNoSeparator(stem, width, height, extension) ==
    stem \o <<"_">> \o Dec(width) \o Dec(height) \o <<".">> \o extension

\* a filename that carries no dimensions
FormatFilenameNoSize(stem, width, height, extension) ==
    stem \o <<".">> \o extension

\* format!("{}_{}x{}.{}", stem, width, height, extension)
FormatFilename(stem, width, height, extension) ==
    stem \o <<"_">> \o Dec(width) \o <<"x">> \o Dec(height) \o <<".">> \o extension

GenerateResizedKey(original_key, width, height) ==
    Strict2(LAMBDA parent, filename :
                IF parent = <<>> THEN filename ELSE parent \o <<"/">> \o filename,
            UnwrapOr(Parent(original_key), <<>>),
            FormatFilename(UnwrapOr(FileStem(original_key), <<"i", "m", "a", "g", "e">>),
                           width, height,
                           UnwrapOr(Extension(original_key), <<"j", "p", "g">>)))

(***************************************************************************)
(* f64 arithmetic on positive values, exactly as IEEE 754 binary64 rounds  *)
(* (round to nearest, ties to even).  A float is [m, e] with value         *)
(* m * 2^e and 2^52 <= m < 2^53; m is a natural number held as BigLen      *)
(* digits of BigBase, least significant first.                             *)
(***************************************************************************)
BigBits == 14
BigBase == 16384
BigLen == 8

\* 2^b, for b up to 30
Pow2(b) ==
    <<1, 2, 4, 8, 16, 32, 64, 128, 256, 512, 1024, 2048, 4096, 8192, 16384, 32768,
      65536, 131072, 262144, 524288, 1048576, 2097152, 4194304, 8388608, 16777216,
      33554432, 67108864, 134217728, 268435456, 536870912, 1073741824>>[b + 1]

\* the number of bits of n, for 1 <= n < 2^31
BitLen(n) == CHOOSE k \in 1..31 : Pow2(k - 1) <= n /\ (k = 31 \/ n < Pow2(k))

\* the digits F(1), ..., F(BigLen) as a sequence
BigDigits(F(_)) == <<F(1), F(2), F(3), F(4), F(5), F(6), F(7), F(8)>>

BigZero == <<0, 0, 0, 0, 0, 0, 0, 0>>

BigDigit(a, i) == IF i >= 1 /\ i <= BigLen THEN a[i] ELSE 0

\* a natural number below 2^31 as digits
BigOfInt(n) ==
    Strict1(LAMBDA v : <<v % BigBase, (v \div BigBase) % BigBase, v \div (BigBase * BigBase),
                         0, 0, 0, 0, 0>>, n)

\* the value of digits that stand for a number below 2^31
BigFitsInt(a) == a[3] < 8 /\ \A i \in 4..BigLen : a[i] = 0
BigToInt(a) == a[1] + a[2] * BigBase + a[3] * BigBase * BigBase

BigLess(a, b) ==
    Strict2(LAMBDA x, y :
                \E i \in 1..BigLen : x[i] < y[i] /\ \A j \in (i + 1)..BigLen : x[j] = y[j],
            a, b)

\* a * 2^k
BigShiftLeft(a, k) ==
    Strict2(LAMBDA x, p :
                BigDigits(LAMBDA i :
                    ((BigDigit(x, i - (k \div BigBits)) * p) % BigBase)
                    + ((BigDigit(x, i - (k \div BigBits) - 1) * p) \div BigBase)),
            a, Pow2(k % BigBits))

\* a \div 2^k
BigShiftRight(a, k) ==
    Strict2(LAMBDA x, p :
                BigDigits(LAMBDA i :
                    (BigDigit(x, i + (k \div BigBits)) \div p)
                    + ((BigDigit(x, i + (k \div BigBits) + 1) % p) * (BigBase \div p))),
            a, Pow2(k % BigBits))

\* bit j of a, the lowest being bit 0
BigBit(a, j) == (a[(j \div BigBits) + 1] \div Pow2(j % BigBits)) % 2

\* whether a has a bit set below bit j
BigLowBits(a, j) ==
    \/ \E i \in 1..(j \div BigBits) : a[i] # 0
    \/ a[(j \div BigBits) + 1] % Pow2(j % BigBits) # 0

\* what a right shift by k bits drops (and a remainder beyond it, when more is
\* set): 0 nothing, 1 less than half of the last place kept, 2 exactly half,
\* 3 more than half
Lost(a, k, more) ==
    Strict2(LAMBDA x, m :
                IF k = 0 THEN (IF m THEN 1 ELSE 0)
                ELSE 2 * BigBit(x, k - 1) + (IF m \/ BigLowBits(x, k - 1) THEN 1 ELSE 0),
            a, more)

\* the digits of a - b from position i on, for a >= b
RECURSIVE BigSubFrom(_, _, _, _)
BigSubFrom(a, b, i, borrow) ==
    IF i > BigLen THEN <<>>
    ELSE <<(a[i] - borrow - b[i] + BigBase) % BigBase>>
         \o BigSubFrom(a, b, i + 1, IF a[i] - borrow < b[i] THEN 1 ELSE 0)

\* a - b, for a >= b
BigSub(a, b) == Strict2(LAMBDA x, y : BigSubFrom(x, y, 1, 0), a, b)

\* a + 1
BigSucc(a) ==
    Strict1(LAMBDA x :
                BigDigits(LAMBDA i :
                    IF \A j \in 1..(i - 1) : x[j] = BigBase - 1
                    THEN (x[i] + 1) % BigBase ELSE x[i]),
            a)

\* the sum of the digit products of a and b that land on position k
BigColumn(a, b, k) ==
    LET term(i) == IF i <= k /\ k + 1 - i <= 4 THEN a[i] * b[k + 1 - i] ELSE 0
    IN  term(1) + term(2) + term(3) + term(4)

\* the digits of a * b from position k on
RECURSIVE BigMulFrom(_, _, _, _)
BigMulFrom(a, b, k, carry) ==
    IF k > BigLen THEN <<>>
    ELSE Strict1(LAMBDA sum : <<sum % BigBase>> \o BigMulFrom(a, b, k + 1, sum \div BigBase),
                 BigColumn(a, b, k) + carry)

\* a * b, for a and b below 2^56
BigMul(a, b) == Strict2(LAMBDA x, y : BigMulFrom(x, y, 1, 0), a, b)

\* the next digit of a long division: the largest q with d * q <= cur, for
\* cur < d * BigBase and d's leading digit, its fourth, at least BigBase / 2
BigQuotientDigit(cur, d) ==
    LET guess == (cur[5] * BigBase + cur[4]) \div d[4]
        q0 == IF guess > BigBase - 1 THEN BigBase - 1 ELSE guess
        fits(q) == ~BigLess(cur, BigMul(d, BigOfInt(q)))
    IN  IF fits(q0) THEN q0 ELSE IF fits(q0 - 1) THEN q0 - 1 ELSE q0 - 2

\* long division, a digit at a time: the quotient q and the remainder r of the
\* first n digits of num * BigBase^4 by d, for num and d of four digits
RECURSIVE BigDivDigits(_, _, _)
BigDivDigits(num, d, n) ==
    IF n = 0 THEN [q |-> BigZero, r |-> BigZero]
    ELSE Strict1(LAMBDA prev :
             Strict1(LAMBDA cur :
                 Strict1(LAMBDA digit :
                             [q |-> [BigShiftLeft(prev.q, BigBits) EXCEPT ![1] = digit],
                              r |-> BigSub(cur, BigMul(d, BigOfInt(digit)))],
                         BigQuotientDigit(cur, d)),
                 [BigShiftLeft(prev.r, BigBits) EXCEPT ![1] = BigDigit(num, 5 - n)]),
             BigDivDigits(num, d, n - 1))

\* 2^52, 2^53, 2^56 and 2^105
Two52 == <<0, 0, 0, 1024, 0, 0, 0, 0>>
Two53 == <<0, 0, 0, 2048, 0, 0, 0, 0>>
Two56 == <<0, 0, 0, 0, 1, 0, 0, 0>>
Two105 == <<0, 0, 0, 0, 0, 0, 0, 128>>

\* a mantissa of 53 bits and an exponent, rounded to nearest, ties to even
F64Round(m, e, lost) ==
    Strict2(LAMBDA x, l :
                Strict1(LAMBDA r : IF r = Two53 THEN [m |-> Two52, e |-> e + 1]
                                   ELSE [m |-> r, e |-> e],
                        IF l = 3 \/ (l = 2 /\ x[1] % 2 = 1) THEN BigSucc(x) ELSE x),
            m, lost)

\* n as f64, for a u32 n >= 1 (exact)
F64OfU32(n) ==
    Strict1(LAMBDA len : [m |-> BigShiftLeft(BigOfInt(n), 53 - len), e |-> len - 53],
            BitLen(n))

\* x / y
F64Div(x, y) ==
    Strict2(LAMBDA a, b :
                Strict1(LAMBDA qr :
                            Strict1(LAMBDA bits :
                                        F64Round(BigShiftRight(qr.q, bits),
                                                 a.e - b.e - 56 + bits,
                                                 Lost(qr.q, bits, qr.r # BigZero)),
                                    IF BigLess(qr.q, Two56) THEN 3 ELSE 4),
                        BigDivDigits(BigShiftLeft(a.m, 3), BigShiftLeft(b.m, 3), 8)),
            x, y)

\* x * y
F64Mul(x, y) ==
    Strict2(LAMBDA a, b :
                Strict1(LAMBDA p :
                            Strict1(LAMBDA bits :
                                        F64Round(BigShiftRight(p, bits), a.e + b.e + bits,
                                                 Lost(p, bits, FALSE)),
                                    IF BigLess(p, Two105) THEN 52 ELSE 53),
                        BigMul(a.m, b.m)),
            x, y)

\* x > y
F64Gt(x, y) ==
    Strict2(LAMBDA a, b : a.e > b.e \/ (a.e = b.e /\ BigLess(b.m, a.m)), x, y)

\* the largest integer of the model: a cast that yields 2^31 or more yields this
IntMax == 2147483647

\* `x as u32`: truncation toward zero
F64ToU32(x) ==
    Strict1(LAMBDA a :
                IF a.e >= 0 THEN IntMax
                ELSE IF a.e < -52 THEN 0
                ELSE Strict1(LAMBDA v : IF BigFitsInt(v) THEN BigToInt(v) ELSE IntMax,
                             BigShiftRight(a.m, -a.e)),
            x)

(***************************************************************************)
(* Images.  Encoded bytes are [fmt, w, h, px]: the container format, the   *)
(* pixel dimensions and the pixel content; a decoded image is [w, h, px].  *)
(* Pixel content is the source's content and the operations applied to it. *)
(***************************************************************************)
Lanczos3 == "Lanczos3"

\* DynamicImage::resize_exact
ResizeExact(img, nwidth, nheight, filter) ==
    [w |-> nwidth, h |-> nheight, color |-> img.color,
     px |-> [op |-> "resize_exact", w |-> nwidth, h |-> nheight, filter |-> filter,
             of |-> img.px]]

Min(a, b) == IF a < b THEN a ELSE b
SaturatingSub(a, b) == IF a > b THEN a - b ELSE 0

\* imageops::crop_imm(...).to_image(): the rectangle is cut to the image's bounds
CropImm(img, x, y, width, height) ==
    LET cx == Min(x, img.w)
        cy == Min(y, img.h)
        ch == Min(height, img.h - cy)
        cw == Min(width, img.w - cx)
    IN  [w |-> cw, h |-> ch, color |-> img.color,
         px |-> [op |-> "crop", x |-> cx, y |-> cy, w |-> cw, h |-> ch, of |-> img.px]]

\* the (scale_width, scale_height) of resize_cover
CoverScale(img_width, img_height, width, height) ==
    Strict2(LAMBDA img_aspect, target_aspect :
                IF F64Gt(img_aspect, target_aspect)
                THEN [w |-> F64ToU32(F64Mul(F64OfU32(height), img_aspect)), h |-> height]
                ELSE [w |-> width, h |-> F64ToU32(F64Div(F64OfU32(width), img_aspect))],
            F64Div(F64OfU32(img_width), F64OfU32(img_height)),
            F64Div(F64OfU32(width), F64OfU32(height)))

\* ImageProcessor::resize_cover
ResizeCover(img, width, height) ==
    Strict1(LAMBDA scale :
                LET scaled == ResizeExact(img, scale.w, scale.h, Lanczos3)
                    x_offset == SaturatingSub(scale.w, width) \div 2
                    y_offset == SaturatingSub(scale.h, height) \div 2
                IN  CropImm(scaled, x_offset, y_offset, width, height),
            CoverScale(img.w, img.h, width, height))

\* `x.round() as u64`: to the nearest integer, halves away from zero
F64RoundToInt(x) ==
    Strict1(LAMBDA a :
                IF a.e >= 0 THEN IntMax
                ELSE IF a.e < -53 THEN 0
                ELSE Strict1(LAMBDA v : IF ~BigFitsInt(v) THEN IntMax
                                        ELSE BigToInt(v) + (IF Lost(a.m, -a.e, FALSE) >= 2
                                                            THEN 1 ELSE 0),
                             BigShiftRight(a.m, -a.e)),
            x)

\* f64::min
F64Min(x, y) == Strict2(LAMBDA a, b : IF F64Gt(a, b) THEN b ELSE a, x, y)

Max(a, b) == IF a > b THEN a ELSE b

\* the image crate's resize_dimensions(width, height, nwidth, nheight, false):
\* the largest size of the image's aspect ratio inside nwidth x nheight
ResizeDimensions(width, height, nwidth, nheight) ==
    Strict1(LAMBDA ratio :
                [w |-> Max(F64RoundToInt(F64Mul(F64OfU32(width), ratio)), 1),
                 h |-> Max(F64RoundToInt(F64Mul(F64OfU32(height), ratio)), 1)],
            F64Min(F64Div(F64OfU32(nwidth), F64OfU32(width)),
                   F64Div(F64OfU32(nheight), F64OfU32(height))))

\* DynamicImage::resize: resize_exact to the fitting size; the colour type stays
ResizeFit(img, nwidth, nheight, filter) ==
    Strict1(LAMBDA d : ResizeExact(img, d.w, d.h, filter),
            ResizeDimensions(img.w, img.h, nwidth, nheight))

\* ImageProcessor::resize_contain
ResizeContain(img, width, height) == ResizeFit(img, width, height, Lanczos3)

\* ImageProcessor::resize_fill
ResizeFill(img, width, height) == ResizeExact(img, width, height, Lanczos3)

\* a scale-down that resizes whatever the source's size
ResizeScaleDownAlways(img, width, height) == ResizeFit(img, width, height, Lanczos3)

\* ImageProcessor::resize_scale_down
ResizeScaleDown(img, width, height) ==
    IF img.w <= width /\ img.h <= height THEN img
    ELSE ResizeFit(img, width, height, Lanczos3)

Modes == {"cover", "contain", "fill", "scaledown"}

\* what the build fixes: the image crate's JPEG encoder either converts RGBA
\* pixels or rejects them, by its version
Builds == [jpeg_takes_rgba : BOOLEAN]
DefaultBuild == [jpeg_takes_rgba |-> TRUE]

ImageProcessingError == [ok |-> FALSE, err |-> "ImageProcessingError"]

\* bytes no decoder accepts
Garbage == [fmt |-> "garbage"]

\* image::load_from_memory
LoadFromMemory(image_data) ==
    IF image_data.fmt \in {"png", "jpeg"}
    THEN [ok |-> TRUE,
          img |-> [w |-> image_data.w, h |-> image_data.h, color |-> image_data.color,
                   px |-> image_data.px]]
    ELSE [ok |-> FALSE]

\* DynamicImage::write_to(.., ImageFormat::Jpeg): lossy, and without alpha
WriteToJpeg(img, b) ==
    IF img.color = "rgba8" /\ ~b.jpeg_takes_rgba THEN [ok |-> FALSE]
    ELSE [ok |-> TRUE,
          bytes |-> [fmt |-> "jpeg", w |-> img.w, h |-> img.h, color |-> "rgb8",
                     px |-> [op |-> "jpeg", of |-> img.px]]]

\* the match on object_mode
ResizeByMode(img, width, height, object_mode) ==
    IF object_mode = "cover"
    THEN [ResizeCover(img, width, height) EXCEPT !.color = "rgba8"]
    ELSE IF object_mode = "contain" THEN ResizeContain(img, width, height)
    ELSE IF object_mode = "fill" THEN ResizeFill(img, width, height)
    ELSE ResizeScaleDown(img, width, height)

\* ImageProcessor::resize
Resize(image_data, width, height, object_mode, b) ==
    Strict1(LAMBDA loaded :
                IF ~loaded.ok THEN ImageProcessingError
                ELSE Strict1(LAMBDA written_to :
                                 IF ~written_to.ok THEN ImageProcessingError
                                 ELSE [ok |-> TRUE, data |-> written_to.bytes,
                                       content_type |-> "image/jpeg"],
                             WriteToJpeg(ResizeByMode(loaded.img, width, height, object_mode),
                                         b)),
            LoadFromMemory(image_data))

(***************************************************************************)
(* The pure functions are checked under specifications that draw an input  *)
(* and apply the function to it; the request slots stay empty there.       *)
(***************************************************************************)
NoRequests ==
    /\ store = <<>> /\ pc = <<>> /\ req = <<>> /\ loc = <<>> /\ data = <<>>
    /\ resp = <<>> /\ ops = <<>> /\ repeatOf = <<>>

handlerVars == <<store, pc, req, loc, data, resp, ops, repeatOf, build>>

(***************************************************************************)
(* Locators of the three accepted shapes                                   *)
(***************************************************************************)
\* s3://bucket/key
NativeUrl(bucket, key) == S3Scheme \o SchemeSep \o bucket \o <<"/">> \o key

\* https://bucket.s3.<domain>/key
VirtualHostedUrl(bucket, domain, key) ==
    HttpsScheme \o SchemeSep \o bucket \o <<".">> \o domain \o <<"/">> \o key

\* https://s3.<domain>/bucket/key
PathStyleUrl(bucket, domain, key) ==
    HttpsScheme \o SchemeSep \o domain \o <<"/">> \o bucket \o <<"/">> \o key

\* s3.amazonaws.com and s3-eu.amazonaws.com
StorageDomains ==
    { <<"s", "3", ".">> \o <<"a", "m", "a", "z", "o", "n", "a", "w", "s", ".", "c", "o", "m">>,
      <<"s", "3", "-", "e", "u", ".">>
          \o <<"a", "m", "a", "z", "o", "n", "a", "w", "s", ".", "c", "o", "m">> }

BucketChars == {"b", "s", "3", ".", "-"}

MinBucketLen == 3

\* a bucket name: at least three letters, digits, dots and hyphens; a letter
\* or digit at both ends; no dot next to a dot or a hyphen
IsBucketName(b) ==
    /\ Len(b) >= MinBucketLen
    /\ b[1] \notin {".", "-"}
    /\ b[Len(b)] \notin {".", "-"}
    /\ \A i \in 1..(Len(b) - 1) :
          ~(b[i] = "." /\ b[i + 1] \in {".", "-"}) /\ ~(b[i] = "-" /\ b[i + 1] = ".")

Buckets == {b \in SeqsUpTo(BucketChars, MaxBucketLen) : IsBucketName(b)}

KeyChars == {"k", "/", "."}

\* an object key as the data model has it: not empty, no leading slash; and
\* no "." or ".." segment, which a URL cannot carry
IsObjectKey(k) ==
    /\ k # <<>>
    /\ k[1] # "/"
    /\ \A i \in 1..Len(Split(k, "/")) : Split(k, "/")[i] \notin {<<".">>, <<".", ".">>}

ObjectKeys == {k \in SeqsUpTo(KeyChars, MaxKeyLen - 1) : IsObjectKey(k)}

ParseInit ==
    /\ NoRequests
    /\ build = DefaultBuild
    /\ input \in [bucket : Buckets, key : ObjectKeys, domain : StorageDomains]
    /\ output = <<>>
    /\ phase = "in"

ParseNative ==
    /\ phase = "in"
    /\ output' = [shape |-> "native",
                  parsed |-> ParseS3Url(NativeUrl(input.bucket, input.key))]
    /\ phase' = "out"
    /\ UNCHANGED <<handlerVars, input>>

ParseVirtualHosted ==
    /\ phase = "in"
    /\ output' = [shape |-> "virtual-hosted",
                  parsed |-> ParseS3Url(VirtualHostedUrl(input.bucket, input.domain, input.key))]
    /\ phase' = "out"
    /\ UNCHANGED <<handlerVars, input>>

ParsePathStyle ==
    /\ phase = "in"
    /\ output' = [shape |-> "path-style",
                  parsed |-> ParseS3Url(PathStyleUrl(input.bucket, input.domain, input.key))]
    /\ phase' = "out"
    /\ UNCHANGED <<handlerVars, input>>

ParseNext == ParseNative \/ ParseVirtualHosted \/ ParsePathStyle

SpecParse == ParseInit /\ [][ParseNext]_vars

\* C3: a locator built in any of the three accepted shapes from a bucket and a
\* key parses to exactly that bucket and that key.
C3_RoundTrip ==
    phase = "out" =>
        output.parsed = [ok |-> TRUE, bucket |-> input.bucket, key |-> input.key]

(***************************************************************************)
(* Key derivation, directly and as resize_image reaches it                 *)
(***************************************************************************)
RawKeyChars == {"a", "/", "."}

\* keys that already look like a variant, or like the defaults
LookalikeKeys ==
    { <<"a", "_", "1", "x", "1", ".", "a">>,
      <<"a", "_", "1", "x", "1", ".", "j", "p", "g">>,
      <<"i", "m", "a", "g", "e", "_", "1", "x", "1", ".", "j", "p", "g">>,
      <<"a", "/", "a", "_", "1", "x", "1">> }

\* keys of the usual shapes: name.extension, with and without a parent
TypicalKeys == { <<"a", ".", "p">>, <<"a", "/", "a", ".", "p">> }

RawKeys == SeqsUpTo(RawKeyChars, MaxRawKeyLen) \cup LookalikeKeys \cup TypicalKeys

KeyDims == 1..MaxDim

KeyInit ==
    /\ NoRequests
    /\ build = DefaultBuild
    /\ input \in [raw : RawKeys, width : KeyDims, height : KeyDims]
    /\ output = <<>>
    /\ phase = "in"

\* generate_resized_key on the raw string
GenerateKey ==
    /\ phase = "in"
    /\ output' = [ok |-> TRUE, via |-> "direct", original_key |-> input.raw,
                  resized_key |-> GenerateResizedKey(input.raw, input.width, input.height)]
    /\ phase' = "out"
    /\ UNCHANGED <<handlerVars, input>>

\* resize_image up to the derived key: the key comes out of parse_s3_url
ResolveKey ==
    /\ phase = "in"
    /\ LET parsed == ParseS3Url(NativeUrl(<<"b">>, input.raw))
       IN  output' = IF parsed.ok
                     THEN [ok |-> TRUE, via |-> "url", original_key |-> parsed.key,
                           resized_key |->
                               GenerateResizedKey(parsed.key, input.width, input.height)]
                     ELSE [ok |-> FALSE, via |-> "url"]
    /\ phase' = "out"
    /\ UNCHANGED <<handlerVars, input>>

KeyNext == GenerateKey \/ ResolveKey

SpecKey == KeyInit /\ [][KeyNext]_vars

\* the variant key of every key and every pair of dimensions of the model
VariantKeys ==
    [k \in RawKeys \cup {ParseS3Url(NativeUrl(<<"b">>, r)).key :
                            r \in {x \in RawKeys : ParseS3Url(NativeUrl(<<"b">>, x)).ok}},
     w \in KeyDims, h \in KeyDims |-> GenerateResizedKey(k, w, h)]

\* parent/stem_WIDTHxHEIGHT.extension, without parent/ when there is no parent
VariantForm(key, width, height) ==
    LET name == FileName(key)
        dot == LastIndexOf(name, ".")
        hasExt == name # Nothing /\ dot > 1
        stem == IF name = Nothing THEN <<"i", "m", "a", "g", "e">>
                ELSE IF hasExt THEN Take(name, dot - 1) ELSE name
        ext == IF hasExt THEN Drop(name, dot) ELSE <<"j", "p", "g">>
        suffix == <<"_">> \o Dec(width) \o <<"x">> \o Dec(height) \o <<".">> \o ext
    IN  [stem |-> stem, suffix |-> suffix]

\* C6: the variant key ends in stem_WIDTHxHEIGHT.extension (extension jpg when
\* the key has none), has a parent/ prefix exactly when the key has a parent,
\* and differs from the variant key of the same original key under every
\* other pair of dimensions.
C6_KeyInjective ==
    (phase = "out" /\ output.ok) =>
        LET k == output.original_key
            out == output.resized_key
            form == VariantForm(k, input.width, input.height)
            tail == form.stem \o form.suffix
        IN  /\ Len(out) >= Len(tail)
            /\ Drop(out, Len(out) - Len(tail)) = tail
            /\ (Len(PathComponents(k)) <= 1 <=> out = tail)
            /\ \A w \in KeyDims, h \in KeyDims :
                  <<w, h>> # <<input.width, input.height>> => VariantKeys[k, w, h] # out

C6_Witness ==
    /\ phase = "out" /\ output.ok
    /\ input.width = 1 /\ input.height = 11
    /\ Len(PathComponents(output.original_key)) = 2
    /\ Extension(output.original_key) # Nothing

\* C10: the variant key derived from a key that parse_s3_url accepted is never
\* that key: the store never targets the object the request fetched.
C10_NeverOriginal ==
    (phase = "out" /\ output.ok /\ output.via = "url") =>
        output.resized_key # output.original_key

C10_Witness ==
    /\ phase = "out" /\ output.ok /\ output.via = "url"
    /\ output.original_key = <<"a", "_", "1", "x", "1", ".", "a">>
    /\ input.width = 1 /\ input.height = 1

(***************************************************************************)
(* resize_cover on a decoded image                                         *)
(***************************************************************************)
SourcePixels == [op |-> "source"]

CoverInit ==
    /\ NoRequests
    /\ build = DefaultBuild
    /\ input \in [img_width : 1..MaxPix, img_height : 1..MaxPix,
                  width : 1..MaxPix, height : 1..MaxPix]
    /\ output = <<>>
    /\ phase = "in"

Cover ==
    /\ phase = "in"
    /\ LET img == [w |-> input.img_width, h |-> input.img_height, color |-> "rgb8",
                   px |-> SourcePixels]
       IN  output' = ResizeCover(img, input.width, input.height)
    /\ phase' = "out"
    /\ UNCHANGED <<handlerVars, input>>

CoverNext == Cover

SpecCover == CoverInit /\ [][CoverNext]_vars

\* C4: resize_cover yields an image of exactly width x height pixels: the
\* scaled intermediate is at least as large as the target on both axes and
\* the crop rectangle lies inside it.
C4_CoverExact ==
    phase = "out" =>
        /\ output.px.of.w >= input.width
        /\ output.px.of.h >= input.height
        /\ output.px.x + input.width <= output.px.of.w
        /\ output.px.y + input.height <= output.px.of.h
        /\ output.w = input.width
        /\ output.h = input.height

(***************************************************************************)
(* ImageProcessor::resize on encoded bytes                                 *)
(***************************************************************************)
\* PNG with or without alpha, JPEG, of every size of the model; and garbage
SourceImages ==
    {[fmt |-> f.fmt, color |-> f.color, w |-> w, h |-> h, px |-> SourcePixels] :
        f \in {[fmt |-> "png", color |-> "rgb8"], [fmt |-> "png", color |-> "rgba8"],
               [fmt |-> "jpeg", color |-> "rgb8"]},
        w \in 1..MaxBox, h \in 1..MaxBox}

ResizeInit ==
    /\ NoRequests
    /\ build \in Builds
    /\ input \in [image_data : SourceImages \cup {Garbage},
                  width : 1..MaxBox, height : 1..MaxBox, object_mode : Modes]
    /\ output = <<>>
    /\ phase = "in"

ResizeStep ==
    /\ phase = "in"
    /\ output' = Resize(input.image_data, input.width, input.height, input.object_mode, build)
    /\ phase' = "out"
    /\ UNCHANGED <<handlerVars, input>>

ResizeNext == ResizeStep

SpecResize == ResizeInit /\ [][ResizeNext]_vars

\* the source decodes and fits the target box on both axes
SourceFits ==
    /\ input.image_data # Garbage
    /\ input.image_data.w <= input.width
    /\ input.image_data.h <= input.height

\* C5 as stated: ScaleDown of a source that fits the box returns the input
\* bytes themselves.
C5_BytesUnchanged ==
    (phase = "out" /\ input.object_mode = "scaledown" /\ SourceFits) =>
        (output.ok /\ output.data = input.image_data)

\* C5, amended: ScaleDown of a source that fits the box, when it succeeds,
\* returns the source's own pixels at the source's own size, neither resampled
\* nor upscaled, encoded anew as JPEG.
C5_PixelsUnchanged ==
    (phase = "out" /\ input.object_mode = "scaledown" /\ SourceFits /\ output.ok) =>
        /\ output.content_type = "image/jpeg"
        /\ output.data.fmt = "jpeg"
        /\ output.data.w = input.image_data.w
        /\ output.data.h = input.image_data.h
        /\ output.data.px = [op |-> "jpeg", of |-> input.image_data.px]

C5_Witness ==
    /\ phase = "out" /\ input.object_mode = "scaledown" /\ SourceFits /\ output.ok
    /\ input.image_data.fmt = "png"
    /\ input.image_data.w < input.width

(***************************************************************************)
(* resize_image: the handler, on two request slots that run concurrently   *)
(* against one object store.  A slot moves at the handler's await points:  *)
(* the existence check, the download (with the resize that follows it      *)
(* without an await) and the upload.                                       *)
(***************************************************************************)
Slots == {1, 2}

BucketName == <<"b", "k", "t">>
ObjectKey == <<"a", ".", "p">>

\* s3://bkt/a.p and an address that is no object-store address
ObjectUrl == NativeUrl(BucketName, ObjectKey)
FtpUrl == FtpScheme \o SchemeSep \o BucketName \o <<"/">> \o ObjectKey

\* the modes the requests ask for: one that crops and one that does not
RequestModes == {"cover", "contain"}

\* ResizeRequest payloads: square well-formed ones, ones with a zero dimension and
\* one whose address does not parse
ValidRequests ==
    {[s3_url |-> ObjectUrl, width |-> n, height |-> n, object_mode |-> m] :
        n \in 1..MaxReqDim, m \in RequestModes}
ZeroSizeRequests ==
    {r \in [s3_url : {ObjectUrl}, width : {0, 1}, height : {0, 1},
            object_mode : {"cover"}] : r.width = 0 \/ r.height = 0}
BadUrlRequests ==
    [s3_url : {FtpUrl}, width : {1}, height : {1}, object_mode : {"cover"}]
Requests == ValidRequests \cup ZeroSizeRequests \cup BadUrlRequests

\* the object the requests name: a PNG of 2 x 1 pixels
ObjectImage == [fmt |-> "png", color |-> "rgb8", w |-> 2, h |-> 1, px |-> SourcePixels]

NoValue == [none |-> TRUE]

\* format!("s3://{}/{}", bucket, key)
FormatS3Url(bucket, key) == S3Scheme \o SchemeSep \o bucket \o <<"/">> \o key

Err(kind) == [ok |-> FALSE, err |-> kind]

\* Ok(Json(ResizeResponse { .. }))
Response(payload, resized_url) ==
    [ok |-> TRUE, original_url |-> payload.s3_url, resized_url |-> resized_url,
     width |-> payload.width, height |-> payload.height,
     object_mode |-> payload.object_mode]

Op(name, failed) == [op |-> name, failed |-> failed]

Init ==
    /\ store \in {<<>>, (<<BucketName, ObjectKey>> :> ObjectImage),
                  (<<BucketName, ObjectKey>> :> Garbage)}
    /\ build \in Builds
    /\ pc = [p \in Slots |-> "idle"]
    /\ req = [p \in Slots |-> NoValue]
    /\ loc = [p \in Slots |-> NoValue]
    /\ data = [p \in Slots |-> NoValue]
    /\ resp = [p \in Slots |-> NoValue]
    /\ ops = [p \in Slots |-> <<>>]
    /\ repeatOf = [p \in Slots |-> Nothing]
    /\ input = <<>> /\ output = <<>> /\ phase = "handler"

pureVars == <<input, output, phase>>

\* the request ends with result r
Finish(p, r) ==
    /\ pc' = [pc EXCEPT ![p] = "done"]
    /\ resp' = [resp EXCEPT ![p] = r]

\* a request arrives: validation, parse_s3_url, S3Client::new and
\* generate_resized_key (lines 18-28)
Receive(p, payload) ==
    /\ pc[p] \in {"idle", "done"}
    /\ req' = [req EXCEPT ![p] = payload]
    /\ repeatOf' = [repeatOf EXCEPT ![p] =
                       IF pc[p] = "done" /\ resp[p].ok /\ req[p] = payload
                       THEN resp[p].resized_url ELSE Nothing]
    /\ data' = [data EXCEPT ![p] = NoValue]
    /\ IF payload.width = 0 \/ payload.height = 0
       THEN /\ Finish(p, Err("InvalidS3Url"))
            /\ loc' = [loc EXCEPT ![p] = NoValue]
            /\ ops' = [ops EXCEPT ![p] = <<>>]
       ELSE \E parsed \in {ParseS3Url(payload.s3_url)} :
                IF ~parsed.ok
                THEN /\ Finish(p, Err(parsed.err))
                     /\ loc' = [loc EXCEPT ![p] = NoValue]
                     /\ ops' = [ops EXCEPT ![p] = <<>>]
                ELSE /\ pc' = [pc EXCEPT ![p] = "check"]
                     /\ resp' = [resp EXCEPT ![p] = NoValue]
                     /\ loc' = [loc EXCEPT ![p] =
                                   [bucket |-> parsed.bucket, original_key |-> parsed.key,
                                    resized_key |->
                                        GenerateResizedKey(parsed.key, payload.width,
                                                           payload.height)]]
                     /\ ops' = [ops EXCEPT ![p] = <<Op("client", FALSE)>>]
    /\ UNCHANGED <<store, build, pureVars>>

\* an existence check that never finds the object
CheckObjectExistsNever(objects, bucket, key, failed) == FALSE

\* S3Client::check_object_exists: head_object's error, whatever it is, is false
CheckObjectExists(objects, bucket, key, failed) ==
    IF failed THEN FALSE ELSE <<bucket, key>> \in DOMAIN objects

\* the existence check and the cached answer (lines 30-41)
CheckExists(p) ==
    /\ pc[p] = "check"
    /\ \E failed \in BOOLEAN :
          /\ ops' = [ops EXCEPT ![p] = Append(@, Op("exists", failed))]
          /\ IF CheckObjectExists(store, loc[p].bucket, loc[p].resized_key, failed)
             THEN Finish(p, Response(req[p], FormatS3Url(loc[p].bucket, loc[p].resized_key)))
             ELSE /\ pc' = [pc EXCEPT ![p] = "download"]
                  /\ UNCHANGED resp
    /\ UNCHANGED <<store, build, req, loc, data, repeatOf, pureVars>>

\* S3Client::download_image: parse_s3_url again, then get_object
DownloadImage(objects, s3_url, failed) ==
    Strict1(LAMBDA parsed :
                IF ~parsed.ok THEN Err(parsed.err)
                ELSE IF failed \/ <<parsed.bucket, parsed.key>> \notin DOMAIN objects
                THEN Err("S3Error")
                ELSE [ok |-> TRUE, bytes |-> objects[<<parsed.bucket, parsed.key>>]],
            ParseS3Url(s3_url))

\* a download whose failure is taken for an empty body
DownloadResultLenient(downloaded) ==
    IF downloaded.ok THEN downloaded ELSE [ok |-> TRUE, bytes |-> Garbage]

\* the ? after download_image
DownloadResult(downloaded) == downloaded

\* the download and the resize (lines 43-50)
Download(p) ==
    /\ pc[p] = "download"
    /\ \E failed \in BOOLEAN :
       \E got \in {DownloadImage(store, req[p].s3_url, failed)} :
       \E downloaded \in {DownloadResult(got)} :
          IF ~downloaded.ok
          THEN /\ ops' = [ops EXCEPT ![p] = Append(@, Op("fetch", TRUE))]
               /\ Finish(p, Err(downloaded.err))
               /\ UNCHANGED data
          ELSE \E resized \in {Resize(downloaded.bytes, req[p].width, req[p].height,
                                      req[p].object_mode, build)} :
                  /\ ops' = [ops EXCEPT ![p] =
                                @ \o <<Op("fetch", ~got.ok), Op("resize", ~resized.ok)>>]
                  /\ IF ~resized.ok
                     THEN Finish(p, Err(resized.err)) /\ UNCHANGED data
                     ELSE /\ pc' = [pc EXCEPT ![p] = "upload"]
                          /\ data' = [data EXCEPT ![p] = resized.data]
                          /\ UNCHANGED resp
    /\ UNCHANGED <<store, build, req, loc, repeatOf, pureVars>>

\* the upload and the answer (lines 52-64); S3Client::upload_image
Upload(p) ==
    /\ pc[p] = "upload"
    /\ \E failed \in BOOLEAN :
          /\ ops' = [ops EXCEPT ![p] = Append(@, Op("store", failed))]
          /\ IF failed
             THEN Finish(p, Err("S3Error")) /\ UNCHANGED store
             ELSE /\ store' = (<<loc[p].bucket, loc[p].resized_key>> :> data[p]) @@ store
                  /\ Finish(p, Response(req[p], FormatS3Url(loc[p].bucket, loc[p].resized_key)))
    /\ UNCHANGED <<build, req, loc, data, repeatOf, pureVars>>

Next ==
    \E p \in Slots :
        \/ \E payload \in Requests : Receive(p, payload)
        \/ CheckExists(p)
        \/ Download(p)
        \/ Upload(p)

Spec == Init /\ [][Next]_vars

(***************************************************************************)
(* Properties of the handler                                               *)
(***************************************************************************)
\* the names of the collaborator operations slot p has invoked, in order
OpNames(p) == [i \in 1..Len(ops[p]) |-> ops[p][i].op]

\* the request of slot p repeats the one that slot has just answered with success
Repeated(p) == pc[p] = "done" /\ repeatOf[p] # Nothing

\* C1 as stated: the second of two identical requests in sequence, the first
\* having succeeded, returns the same resized locator after the existence check
\* alone, without fetch, resize or store.
C1_SecondCallCached ==
    \A p \in Slots :
        Repeated(p) =>
            /\ resp[p].ok
            /\ resp[p].resized_url = repeatOf[p]
            /\ OpNames(p) = <<"client", "exists">>

\* C1, amended: the second of two identical requests in sequence, the first
\* having succeeded, returns the same resized locator after the existence check
\* alone, provided that existence check itself does not fail.
C1_SecondCallCachedUnlessCheckFails ==
    \A p \in Slots :
        (Repeated(p) /\ ~ops[p][2].failed) =>
            /\ resp[p].ok
            /\ resp[p].resized_url = repeatOf[p]
            /\ ops[p] = <<Op("client", FALSE), Op("exists", FALSE)>>

C1_Witness ==
    \E p \in Slots :
        /\ Repeated(p) /\ ~ops[p][2].failed
        /\ resp[p].ok /\ resp[p].resized_url = repeatOf[p]
        /\ <<loc[p].bucket, loc[p].resized_key>> \in DOMAIN store

\* C2: a request with a zero width or a zero height fails with an error kind
\* of its own, which is not the kind of an invalid locator, before any storage
\* collaborator operation.
C2_ZeroSizeIsInvalidRequest ==
    \A p \in Slots :
        (pc[p] = "done" /\ (req[p].width = 0 \/ req[p].height = 0)) =>
            /\ ~resp[p].ok
            /\ resp[p].err # InvalidS3Url.err
            /\ ops[p] = <<>>

\* C7: a failed fetch, resize or store is the last collaborator operation of
\* its request and the request ends with the error of that operation; no
\* operation is invoked twice; a failed existence check is no error and is
\* followed by the fetch, as on a cache miss.
C7_FailureAborts ==
    \A p \in Slots :
        /\ \A i \in 1..Len(ops[p]) :
              ops[p][i].failed =>
                  IF ops[p][i].op = "exists"
                  THEN IF i = Len(ops[p]) THEN pc[p] = "download"
                       ELSE ops[p][i + 1].op = "fetch"
                  ELSE /\ i = Len(ops[p])
                       /\ pc[p] = "done"
                       /\ ~resp[p].ok
                       /\ resp[p].err = IF ops[p][i].op = "resize"
                                        THEN ImageProcessingError.err ELSE "S3Error"
        /\ \A i, j \in 1..Len(ops[p]) : i < j => ops[p][i].op # ops[p][j].op
        /\ (pc[p] = "done" /\ resp[p].ok /\ Len(ops[p]) > 2) =>
              OpNames(p) = <<"client", "exists", "fetch", "resize", "store">>

C7_Witness ==
    \E p \in Slots :
        /\ pc[p] = "done" /\ ~resp[p].ok
        /\ Len(ops[p]) = 3
        /\ ops[p][2] = Op("exists", TRUE)
        /\ ops[p][3] = Op("fetch", TRUE)

\* slot p has answered with success after a true miss of the existence check
\* and the whole of fetch, resize and store
StoredAfterMiss(p) ==
    /\ pc[p] = "done" /\ resp[p].ok
    /\ ops[p] = <<Op("client", FALSE), Op("exists", FALSE), Op("fetch", FALSE),
                  Op("resize", FALSE), Op("store", FALSE)>>

\* C8: two concurrent requests for the same bucket, original key, width and
\* height that both miss the existence check and both store return the same
\* resized locator and store the same bytes.
C8_BenignRace ==
    \A p, q \in Slots :
        (/\ p # q
         /\ StoredAfterMiss(p) /\ StoredAfterMiss(q)
         /\ loc[p] = loc[q]
         /\ req[p].width = req[q].width /\ req[p].height = req[q].height) =>
            /\ resp[p].resized_url = resp[q].resized_url
            /\ data[p] = data[q]

\* C9: the object at the resized locator of a successful response is the
\* original resized to the response's width and height under the response's
\* mode.
C9_ResponseDescribesObject ==
    \A p \in Slots :
        (pc[p] = "done" /\ resp[p].ok) =>
            /\ resp[p].resized_url = FormatS3Url(loc[p].bucket, loc[p].resized_key)
            /\ <<loc[p].bucket, loc[p].resized_key>> \in DOMAIN store
            /\ \E expected \in {Resize(store[<<loc[p].bucket, loc[p].original_key>>],
                                       resp[p].width, resp[p].height,
                                       resp[p].object_mode, build)} :
                  /\ expected.ok
                  /\ store[<<loc[p].bucket, loc[p].resized_key>>] = expected.data

====
